---- MODULE Spec2Model ----
(***************************************************************************)
(* Model of the suite server (src/server.js): the flat-file credential     *)
(* store, the cookie sessions, the login / logout / nickname / session     *)
(* endpoints, the bot endpoint's request pipeline and truncateText.        *)
(*                                                                         *)
(* JavaScript strings that the code only compares (uid, password, bot id)  *)
(* are TLA+ strings; strings the code computes on (nickname, extracted     *)
(* text) are sequences of one-character strings.                           *)
(***************************************************************************)
EXTENDS Integers, Sequences, FiniteSets, TLC

\* ------------------------------------------------------------------ bounds
MaxSessions == 2

\* ------------------------------------------------------------- JS values
\* A missing property / an unset session field.
Undefined == "undefined"
\* JSON null in a response body.
Null == "null"
\* The same two values where a character sequence is expected.
UndefinedStr == <<"undefined">>
NullStr == <<"null">>

\* JavaScript truthiness of a string-or-undefined value.
Truthy(v) == v # Undefined /\ v # ""
TruthyStr(s) == s # UndefinedStr /\ s # <<>>

\* The character sequences of length at most n over an alphabet.
RECURSIVE StrUpTo(_, _)
StrUpTo(alphabet, n) ==
  IF n = 0 THEN {<<>>}
  ELSE LET shorter == StrUpTo(alphabet, n - 1)
       IN shorter \cup {Append(s, c) : s \in {t \in shorter : Len(t) = n - 1}, c \in alphabet}

IsSpace(c) == c = " " \/ c = "\n"

\* String.prototype.trim: drop leading and trailing white space.
RECURSIVE TrimLeft(_)
TrimLeft(s) ==
  IF s # <<>> /\ IsSpace(Head(s)) THEN TrimLeft(Tail(s)) ELSE s

RECURSIVE TrimRight(_)
TrimRight(s) ==
  IF s # <<>> /\ IsSpace(s[Len(s)]) THEN TrimRight(SubSeq(s, 1, Len(s) - 1)) ELSE s

Trim(s) == TrimRight(TrimLeft(s))

\* ------------------------------------------------------------------ state
Sessions == 1..MaxSessions
Uids == {"u1", "u2"}
PasswordOf(u) == IF u = "u1" THEN "p1" ELSE "p2"

VARIABLES
  users,      \* data/users.json: the sequence of user records
  usersFile,  \* data/users.json: what kind of file it is
  session,    \* the session store: per browser, req.session's uid and nickname
  last,       \* the request answered last: its inputs, its response, the state before it
  reqs,       \* the POST /api/bot/:botId requests, each with its position in the handler
  uploadDir,  \* the files in uploads/, named by the request that uploaded them
  unlinking,  \* the files whose fs.unlink has been issued and has not completed
  r2Enabled,  \* whether the four object-store settings are all present
  trunc,      \* a call of truncateText: its arguments and its result
  client      \* a call of the browser's fetchWithRetry for a bot request

authVars == <<users, usersFile, session, last>>
botVars == <<reqs, uploadDir, unlinking, r2Enabled>>
vars == <<users, usersFile, session, last, reqs, uploadDir, unlinking, r2Enabled, trunc, client>>

\* A session express-session has just created (or re-created after destroy).
EmptySession == [uid |-> Undefined, nickname |-> UndefinedStr]

NoBody ==
  [ok |-> FALSE, needsNickname |-> FALSE, authenticated |-> FALSE,
   uid |-> Null, nickname |-> NullStr, error |-> ""]

\* What a GET /api/session keeps of a nickname update answered 200 just before
\* it in the same session: the uid the update ran as and the nickname it sent.
NoPrev == [op |-> "none", as |-> Undefined, nickname |-> UndefinedStr]

\* What a page request is answered with: nothing yet, a file of public/, or a
\* redirect.
NoPage == [kind |-> "none", target |-> <<>>]

\* uid, password and nickname are the request's body; as is the session's uid
\* when a nickname update or a logout arrived; reads and writes count the handler's
\* readUsers() and writeUsers() calls; path and page are a page request's path
\* and its answer.
NoRequest ==
  [op |-> "none", sess |-> 0, status |-> 0, uid |-> Undefined, password |-> Undefined,
   nickname |-> UndefinedStr, as |-> Undefined, body |-> NoBody,
   reads |-> 0, writes |-> 0, prev |-> NoPrev, path |-> <<>>, page |-> NoPage]

\* The user records users.json may hold at start: created outside the server,
\* uids unique, every password set, the nickname absent, empty or set.
InitNicknames == {UndefinedStr, <<>>, <<"a">>}
UserRecord(u, n) == [uid |-> u, password |-> PasswordOf(u), nickname |-> n]
InitStores ==
  {<<>>}
  \cup {<<UserRecord(u, n)>> : u \in Uids, n \in InitNicknames}
  \cup {<<UserRecord("u1", n1), UserRecord("u2", n2)>> : n1 \in InitNicknames, n2 \in InitNicknames}

\* What data/users.json can be: a {users: [...]} document, whose array is the
\* variable users (empty otherwise); missing; of length 0; not JSON; or JSON
\* without a users array, such as {} or null.
UsersFileKinds == {"ok", "missing", "empty", "invalid", "noUsers"}

\* readUsers(): the parsed file; hasUsers tells whether data.users is an array.
readUsers ==
  IF usersFile = "missing" THEN [users |-> <<>>, hasUsers |-> TRUE]
  ELSE IF usersFile = "empty" THEN [users |-> <<>>, hasUsers |-> TRUE]
  ELSE IF usersFile = "invalid" THEN [users |-> <<>>, hasUsers |-> TRUE]
  ELSE IF usersFile = "noUsers" THEN [users |-> <<>>, hasUsers |-> FALSE]
  ELSE [users |-> users, hasUsers |-> TRUE]

\* data.users.find(...) on a document without a users array: the TypeError
\* reaches the error middleware, which answers 400 with its message.
FindThrows(data) == ~data.hasUsers
TypeErrorMessage == "Cannot read properties of undefined (reading 'find')"

\* Array.prototype.find over the indices that satisfy its predicate: the first
\* one, 0 if there is none.
First(indices) ==
  IF indices = {} THEN 0 ELSE CHOOSE i \in indices : \A j \in indices : i <= j

Respond(op, s, status, body) ==
  [NoRequest EXCEPT !.op = op, !.sess = s, !.status = status, !.body = body]

\* ------------------------------------------------------- POST /api/login
LoginMatchUidOnly(data, uid, password) ==
  First({i \in 1..Len(data.users) : data.users[i].uid = uid})

LoginMatch(data, uid, password) ==
  First({i \in 1..Len(data.users) :
           data.users[i].uid = uid /\ data.users[i].password = password})

NeedsNicknameIfAbsent(user) == user.nickname = UndefinedStr

NeedsNickname(user) == ~TruthyStr(user.nickname)

Login(s, uid, password) ==
  LET req == [Respond("login", s, 0, NoBody) EXCEPT !.uid = uid, !.password = password] IN
  IF ~Truthy(uid) \/ ~Truthy(password)
  THEN /\ last' = [req EXCEPT !.status = 400, !.body.error = "UID and password required"]
       /\ UNCHANGED <<users, usersFile, session>>
  ELSE LET data == readUsers
           i == LoginMatch(data, uid, password)
       IN IF FindThrows(data)
          THEN /\ last' = [req EXCEPT !.status = 400, !.reads = 1,
                                      !.body.error = TypeErrorMessage]
               /\ UNCHANGED <<users, usersFile, session>>
          ELSE IF i = 0
          THEN /\ last' = [req EXCEPT !.status = 401, !.reads = 1,
                                      !.body.error = "Invalid credentials"]
               /\ UNCHANGED <<users, usersFile, session>>
          ELSE LET user == data.users[i] IN
               /\ session' = [session EXCEPT ![s] =
                    [uid |-> user.uid,
                     nickname |-> IF TruthyStr(user.nickname) THEN user.nickname ELSE <<>>]]
               /\ last' = [req EXCEPT !.status = 200, !.reads = 1, !.body.ok = TRUE,
                                      !.body.needsNickname = NeedsNickname(user)]
               /\ UNCHANGED <<users, usersFile>>

\* ------------------------------------------------------ POST /api/logout
destroyNicknameOnly(sess) == [sess EXCEPT !.nickname = UndefinedStr]

\* req.session.destroy(...): the session is removed from the store, and the
\* browser's next request starts from an empty one.
destroy(sess) == EmptySession

Logout(s) ==
  /\ session' = [session EXCEPT ![s] = destroy(session[s])]
  /\ last' = [Respond("logout", s, 200, NoBody) EXCEPT !.body.ok = TRUE,
                                                        !.as = session[s].uid]
  /\ UNCHANGED <<users, usersFile>>

\* ------------------------------------------------------ GET /api/session
SessionBody(sess) ==
  [NoBody EXCEPT !.authenticated = Truthy(sess.uid),
                 !.uid = IF Truthy(sess.uid) THEN sess.uid ELSE Null,
                 !.nickname = IF TruthyStr(sess.nickname) THEN sess.nickname ELSE NullStr]

GetSession(s) ==
  /\ last' = [Respond("session", s, 200, SessionBody(session[s])) EXCEPT
                !.prev = IF last.op = "nickname" /\ last.status = 200 /\ last.sess = s
                         THEN [op |-> last.op, as |-> last.as, nickname |-> last.nickname]
                         ELSE NoPrev]
  /\ UNCHANGED <<users, usersFile, session>>

\* ---------------------------------------------------- POST /api/nickname
NicknameFind(data, uid) == First({i \in 1..Len(data.users) : data.users[i].uid = uid})

NicknameAuthorizedAlways(sess) == TRUE

NicknameAuthorized(sess) == Truthy(sess.uid)

NicknameSessionStale(sess, nickname) == sess

\* req.session.nickname = nickname
NicknameSession(sess, nickname) == [sess EXCEPT !.nickname = nickname]

SetNicknameOfAll(data, i, nickname) ==
  [data EXCEPT !.users = [j \in 1..Len(data.users) |->
                            [data.users[j] EXCEPT !.nickname = nickname]]]

\* user.nickname = nickname, on the record find returned.
SetNickname(data, i, nickname) == [data EXCEPT !.users[i].nickname = nickname]

writeUsersFirstOnly(data) == <<data.users[1]>>

\* writeUsers(data): the users array the file holds afterwards.
writeUsers(data) == data.users

Nickname(s, raw) ==
  LET req == [Respond("nickname", s, 0, NoBody) EXCEPT !.nickname = raw,
                                                        !.as = session[s].uid] IN
  IF ~NicknameAuthorized(session[s])
  THEN /\ last' = [req EXCEPT !.status = 401, !.body.error = "Not authenticated"]
       /\ UNCHANGED <<users, usersFile, session>>
  ELSE LET nickname == Trim(IF TruthyStr(raw) THEN raw ELSE <<>>) IN
       IF ~TruthyStr(nickname)
       THEN /\ last' = [req EXCEPT !.status = 400, !.body.error = "Nickname required"]
            /\ UNCHANGED <<users, usersFile, session>>
       ELSE LET data == readUsers
                i == NicknameFind(data, session[s].uid)
            IN IF FindThrows(data)
               THEN /\ last' = [req EXCEPT !.status = 400, !.reads = 1,
                                           !.body.error = TypeErrorMessage]
                    /\ UNCHANGED <<users, usersFile, session>>
               ELSE IF i = 0
               THEN /\ last' = [req EXCEPT !.status = 404, !.reads = 1,
                                           !.body.error = "User not found"]
                    /\ UNCHANGED <<users, usersFile, session>>
               ELSE /\ users' = writeUsers(SetNickname(data, i, nickname))
                    /\ usersFile' = "ok"
                    /\ session' = [session EXCEPT ![s] = NicknameSession(session[s], nickname)]
                    /\ last' = [req EXCEPT !.status = 200, !.reads = 1, !.writes = 1,
                                           !.body.ok = TRUE, !.body.nickname = nickname]

\* ------------------------------------------------ GET / and GET /*.html
\* A request path is the sequence of its "/" separators and segments.
LoginPath == <<"/", "login.html">>
NicknamePath == <<"/", "nickname.html">>
IndexPath == <<"/", "index.html">>

SendFile(file) == [kind |-> "file", target |-> file]
Redirect(path) == [kind |-> "redirect", target |-> path]

\* req.path.replace('/', ''): the path without its first "/".
RECURSIVE ReplaceFirstSlash(_)
ReplaceFirstSlash(path) ==
  IF path = <<>> THEN <<>>
  ELSE IF Head(path) = "/" THEN Tail(path)
  ELSE <<Head(path)>> \o ReplaceFirstSlash(Tail(path))

requireAuthUidOnly(sess, path, next) ==
  IF ~Truthy(sess.uid) THEN Redirect(LoginPath) ELSE next

\* requireAuth(req, res, next); next is what the callback answers.
requireAuth(sess, path, next) ==
  IF ~Truthy(sess.uid) THEN Redirect(LoginPath)
  ELSE IF ~TruthyStr(sess.nickname) /\ path # NicknamePath THEN Redirect(NicknamePath)
  ELSE next

\* app.get('/')
GetRoot(sess) ==
  IF ~Truthy(sess.uid) THEN Redirect(LoginPath)
  ELSE IF ~TruthyStr(sess.nickname) THEN Redirect(NicknamePath)
  ELSE SendFile(<<"index.html">>)

\* app.get(['/*.html'])
GetHtml(sess, path) ==
  LET file == ReplaceFirstSlash(path) IN
  IF file = <<"login.html">> THEN SendFile(<<"login.html">>)
  ELSE IF file = <<"nickname.html">>
       THEN IF ~Truthy(sess.uid) THEN Redirect(LoginPath)
            ELSE IF TruthyStr(sess.nickname) THEN Redirect(IndexPath)
            ELSE SendFile(<<"nickname.html">>)
  ELSE requireAuth(sess, path, SendFile(file))

\* A page request: "/" is routed to app.get('/'), a path ending in .html to
\* app.get(['/*.html']).
GetPage(s, path) ==
  LET page == IF path = <<"/">> THEN GetRoot(session[s]) ELSE GetHtml(session[s], path) IN
  /\ last' = [Respond("page", s, IF page.kind = "file" THEN 200 ELSE 302, NoBody)
               EXCEPT !.path = path, !.page = page]
  /\ UNCHANGED <<users, usersFile, session>>

\* ------------------------------------------------- POST /api/bot/:botId
MaxReq == 1
ReqIds == 1..MaxReq

BotIds == {"image", "report", "paper", "data"}

\* process.env: BOT_<ID>_MODEL and BOT_<ID>_KEY per bot id. One bot has both
\* settings, one only the model, one only the key, one neither.
Env(botId) ==
  [model |-> IF botId \in {"image", "report"} THEN "m" ELSE Undefined,
   key |-> IF botId \in {"image", "paper"} THEN "k" ELSE Undefined]

\* What a request uploads in its "file" field: nothing, a document, an image, or
\* an audio file.
FileKinds == {"none", "doc", "image", "audio"}

\* Statuses the external API answers with; response.ok is a 2xx status.
ApiStatuses == {200, 429, 500}
ResponseOk(status) == status >= 200 /\ status <= 299

IdleReq ==
  [pc |-> "idle", sess |-> 0, botId |-> "", file |-> "none", path |-> 0,
   status |-> 0, by |-> "", details |-> FALSE, responses |-> 0,
   extract |-> "", r2Calls |-> 0, apiCalls |-> 0, apiStatus |-> 0, threw |-> "",
   text |-> <<>>, parts |-> <<>>]

\* res.status(status).json(...): the request is answered.
Answer(req, status, by) ==
  [req EXCEPT !.pc = "done", !.status = status, !.by = by,
              !.responses = req.responses + 1]

\* upload.fileFilter: audio and video uploads are refused.
FileFilterRejects(file) == file = "audio"

\* upload.single('file'), the route's first middleware: multer stores the file in
\* uploads/ under a fresh random name, or refuses it and the error middleware
\* answers 400. The handler runs after it.
BotUpload(r, s, botId, file) ==
  /\ reqs[r].pc = "idle"
  /\ LET req == [reqs[r] EXCEPT !.sess = s, !.botId = botId, !.file = file] IN
     IF file # "none" /\ FileFilterRejects(file)
     THEN /\ reqs' = [reqs EXCEPT ![r] = Answer(req, 400, "upload")]
          /\ UNCHANGED uploadDir
     ELSE IF file # "none"
          THEN /\ reqs' = [reqs EXCEPT ![r] = [req EXCEPT !.pc = "handler", !.path = r]]
               /\ uploadDir' = uploadDir \cup {r}
          ELSE /\ reqs' = [reqs EXCEPT ![r] = [req EXCEPT !.pc = "handler"]]
               /\ UNCHANGED uploadDir
  /\ UNCHANGED <<unlinking, r2Enabled>>

\* extractFromFile(file): what the extraction yields, "throw" when an extractor
\* (pdf-parse, mammoth, csv-parse, xlsx) throws on the document.
ExtractOutcomes(file) ==
  CASE file = "none" -> {"none"}
    [] file = "image" -> {"image"}
    [] OTHER -> {"text", "empty", "throw"}

\* The text of a document that has some, as truncateText returns it, and the
\* base64 data of an image.
FileText == <<"f">>
ImageData == "base64"

\* What extractFromFile(file) returns for an outcome that does not throw.
Extracted(outcome) ==
  [text |-> IF outcome = "text" THEN FileText ELSE <<>>,
   inlineImage |-> IF outcome = "image" THEN ImageData ELSE Null]

\* The request's text field: String(req.body.text), '' when absent or empty.
UserTexts == {<<>>, <<"u">>}

FileContentMarker == "\n\n[File Content]\n"
NoInput == <<"No input provided.">>

TextPart(text) == [text |-> text, inline_data |-> Null]
InlinePart(data) == [text |-> UndefinedStr, inline_data |-> data]

PartsImageFirst(userText, extracted) ==
  LET p0 == IF extracted.inlineImage # Null THEN <<InlinePart(extracted.inlineImage)>>
            ELSE <<>>
      p1 == IF userText # <<>> THEN Append(p0, TextPart(userText)) ELSE p0
      p2 == IF extracted.text # <<>>
            THEN Append(p1, TextPart(<<FileContentMarker>> \o extracted.text)) ELSE p1
  IN IF Len(p2) = 0 THEN <<TextPart(NoInput)>> ELSE p2

\* const parts = []; ... the parts of the user message sent to the API.
Parts(userText, extracted) ==
  LET p1 == IF userText # <<>> THEN <<TextPart(userText)>> ELSE <<>>
      p2 == IF extracted.text # <<>>
            THEN Append(p1, TextPart(<<FileContentMarker>> \o extracted.text)) ELSE p1
      p3 == IF extracted.inlineImage # Null
            THEN Append(p2, InlinePart(extracted.inlineImage)) ELSE p2
  IN IF Len(p3) = 0 THEN <<TextPart(NoInput)>> ELSE p3

\* if (!req.session.uid) return res.status(401)
BotAuthorized(sess) == Truthy(sess.uid)

ConfiguredModelOnly(botId) == Truthy(Env(botId).model)

Configured(botId) == Truthy(Env(botId).model) /\ Truthy(Env(botId).key)

\* The handler up to its first await that leaves the process: the session check,
\* the configuration check, then extractFromFile.
BotHandler(r, outcome) ==
  /\ reqs[r].pc = "handler"
  /\ LET req == reqs[r] IN
     IF ~BotAuthorized(session[req.sess])
     THEN reqs' = [reqs EXCEPT ![r] = Answer(req, 401, "auth")]
     ELSE IF ~Configured(req.botId)
          THEN reqs' = [reqs EXCEPT ![r] = Answer(req, 501, "config")]
          ELSE /\ outcome \in ExtractOutcomes(req.file)
               /\ IF outcome = "throw"
                  THEN reqs' = [reqs EXCEPT ![r] =
                                  [Answer(req, 500, "catch") EXCEPT !.threw = "extract"]]
                  ELSE reqs' = [reqs EXCEPT ![r] =
                                  [req EXCEPT !.pc = "r2", !.extract = outcome]]
  /\ UNCHANGED <<uploadDir, unlinking, r2Enabled>>

\* file ? await uploadToR2(file) : null. Without r2Client no call is made.
BotUploadToR2(r, ok) ==
  /\ reqs[r].pc = "r2"
  /\ LET req == reqs[r] IN
     IF req.file # "none" /\ r2Enabled
     THEN IF ok
          THEN reqs' = [reqs EXCEPT ![r] = [req EXCEPT !.pc = "fetch", !.r2Calls = 1]]
          ELSE reqs' = [reqs EXCEPT ![r] =
                          [Answer(req, 500, "catch") EXCEPT !.r2Calls = 1, !.threw = "r2"]]
     ELSE /\ ok
          /\ reqs' = [reqs EXCEPT ![r] = [req EXCEPT !.pc = "fetch"]]
  /\ UNCHANGED <<uploadDir, unlinking, r2Enabled>>

\* The parts are assembled from the request's text and the extraction, then
\* await fetch(...generateContent): the call is made with them; it rejects
\* (apiStatus 0) or resolves with the API's status.
BotFetch(r, userText, apiStatus) ==
  /\ reqs[r].pc = "fetch"
  /\ LET req == [reqs[r] EXCEPT !.apiCalls = @ + 1, !.text = userText,
                                !.parts = Parts(userText, Extracted(reqs[r].extract))] IN
     IF apiStatus = 0
     THEN reqs' = [reqs EXCEPT ![r] = [Answer(req, 500, "catch") EXCEPT !.threw = "fetch"]]
     ELSE reqs' = [reqs EXCEPT ![r] = [req EXCEPT !.pc = "json", !.apiStatus = apiStatus]]
  /\ UNCHANGED <<uploadDir, unlinking, r2Enabled>>

\* await response.json() and the rest of the handler. parsed: "throw" when the
\* body is not JSON, "badparts" when candidates[0].content.parts is no array
\* (partsOut.filter throws), "ok" otherwise.
ParseOutcomes == {"ok", "throw", "badparts"}

BotJson(r, parsed) ==
  /\ reqs[r].pc = "json"
  /\ LET req == reqs[r] IN
     IF parsed = "throw"
     THEN /\ reqs' = [reqs EXCEPT ![r] = [Answer(req, 500, "catch") EXCEPT !.threw = "json"]]
          /\ UNCHANGED unlinking
     ELSE IF ~ResponseOk(req.apiStatus)
          THEN /\ reqs' = [reqs EXCEPT ![r] =
                             [Answer(req, req.apiStatus, "upstream") EXCEPT !.details = TRUE]]
               /\ UNCHANGED unlinking
          ELSE IF parsed = "badparts"
               THEN /\ reqs' = [reqs EXCEPT ![r] =
                                  [Answer(req, 500, "catch") EXCEPT !.threw = "parts"]]
                    /\ UNCHANGED unlinking
               ELSE /\ unlinking' = IF req.file # "none" /\ req.path \in uploadDir
                                    THEN unlinking \cup {req.path} ELSE unlinking
                    /\ reqs' = [reqs EXCEPT ![r] = Answer(req, 200, "ok")]
  /\ UNCHANGED <<uploadDir, r2Enabled>>

\* fs.unlink(file.path, () => {}) completes.
UnlinkDone(f) ==
  /\ f \in unlinking
  /\ uploadDir' = uploadDir \ {f}
  /\ unlinking' = unlinking \ {f}
  /\ UNCHANGED <<reqs, r2Enabled>>

\* ------------------------------------------------------------ truncateText
MaxTextLen == 12
MaxLimit == 2
DefaultLimit == 12000

RECURSIVE Digits(_)
\* Number-to-string conversion of a template literal: the decimal digits of n >= 0.
Digits(n) ==
  LET d == <<"0", "1", "2", "3", "4", "5", "6", "7", "8", "9">>[(n % 10) + 1]
  IN IF n < 10 THEN <<d>> ELSE Append(Digits(n \div 10), d)

MarkerHead == <<"\n", "\n", "[", "T", "r", "u", "n", "c", "a", "t", "e", "d", " ">>
MarkerTail == <<" ", "c", "h", "a", "r", "s", "]">>

\* String.prototype.slice(0, end) for 0 <= end.
Slice0(text, end) == SubSeq(text, 1, IF end < Len(text) THEN end ELSE Len(text))

truncateTextStrict(text, limit) ==
  IF text = <<>> THEN <<>>
  ELSE IF Len(text) < limit THEN text
  ELSE Slice0(text, limit) \o MarkerHead \o Digits(Len(text) - limit) \o MarkerTail

truncateText(text, limit) ==
  IF text = <<>> THEN <<>>
  ELSE IF Len(text) <= limit THEN text
  ELSE Slice0(text, limit) \o MarkerHead \o Digits(Len(text) - limit) \o MarkerTail

NoCall == [pc |-> "idle", text |-> <<>>, limit |-> 0, out |-> <<>>]

\* Texts of up to MaxTextLen characters, and texts around the default limit.
TextChars == {"a", "b"}
Repeat(c, n) == [i \in 1..n |-> c]
Texts ==
  StrUpTo(TextChars, MaxTextLen) \cup {Repeat("a", DefaultLimit + k) : k \in {0, 1, MaxTextLen}}
Limits == (0..MaxLimit) \cup {DefaultLimit}

TruncateCall ==
  /\ trunc.pc = "call"
  /\ trunc' = [trunc EXCEPT !.pc = "done", !.out = truncateText(trunc.text, trunc.limit)]
  /\ UNCHANGED <<authVars, botVars, client>>

\* ------------------------------------------- fetchWithRetry (assets/js/app.js)
Tries == 3
SleepStep == 800

\* The statuses fetchWithRetry throws 'waking' on.
ShouldRetryAny5xx(status) == status >= 500

ShouldRetry(status) == status = 502 \/ status = 503 \/ status = 504

\* sleep(800 * (i + 1)), i the 0-based attempt.
SleepMs(i) == SleepStep * (i + 1)

\* i is the loop variable; outcomes lists what each await fetch gave: a
\* response's status, or 0 when fetch rejected; slept lists the sleeps in ms;
\* res is the status of the response returned; thrown is the error the call
\* ended with.
NoClient ==
  [pc |-> "idle", sess |-> 0, botId |-> "", file |-> "none", text |-> <<>>, i |-> 0,
   outcomes |-> <<>>, slept |-> <<>>, lastErr |-> "", res |-> 0, thrown |-> ""]

\* The click handler calls fetchWithRetry('/api/bot/' + botId, {body: formData}).
ClientCall(s, botId, file, text) ==
  /\ client.pc = "idle"
  /\ client' = [client EXCEPT !.pc = "loop", !.sess = s, !.botId = botId,
                               !.file = file, !.text = text]

\* for (let i = 0; i < tries; i += 1): fetch is called, or the loop is left and
\* lastErr is thrown.
ClientLoop ==
  /\ client.pc = "loop"
  /\ client' = IF client.i < Tries THEN [client EXCEPT !.pc = "fetch"]
                ELSE [client EXCEPT !.pc = "thrown", !.thrown = client.lastErr]

\* What await fetch(url, options) gave: try returns the response, or catch
\* keeps the error ('waking' thrown on 502, 503 and 504, or fetch's own).
ClientSettle(outcome) ==
  LET c == [client EXCEPT !.outcomes = Append(@, outcome)] IN
  IF outcome = 0 THEN [c EXCEPT !.pc = "sleep", !.lastErr = "network"]
  ELSE IF ShouldRetry(outcome) THEN [c EXCEPT !.pc = "sleep", !.lastErr = "waking"]
  ELSE [c EXCEPT !.pc = "returned", !.res = outcome]

\* The request of this attempt reaches the server.
ClientFetch ==
  /\ client.pc = "fetch"
  /\ client' = [client EXCEPT !.pc = "await"]

\* The attempt is answered before the server: the host's proxy answers 502, 503
\* or 504 while the server wakes up, or the connection fails (0).
ClientNoServer(outcome) ==
  /\ client.pc = "fetch"
  /\ client' = ClientSettle(outcome)

\* The server has answered the attempt's request.
ClientResponse(status) ==
  /\ client.pc = "await"
  /\ client' = ClientSettle(status)

\* await sleep(800 * (i + 1)), then i += 1.
ClientSleep ==
  /\ client.pc = "sleep"
  /\ client' = [client EXCEPT !.pc = "loop", !.slept = Append(@, SleepMs(client.i)),
                               !.i = @ + 1]

\* ---------------------------------------------------------- specification
\* Request bodies: a field may be missing or empty; "zz" is no user's uid.
ReqUids == {Undefined, "u1", "u2", "zz"}
ReqPasswords == {"", "p1", "p2"}
ReqNicknames == {UndefinedStr, <<" ">>, <<"a">>, <<" ", "a", " ">>, <<"b", " ">>}
\* Page requests: the root, the two ungated pages, two pages of public/, and a
\* login.html below a directory.
PagePaths ==
  {<<"/">>, LoginPath, NicknamePath, IndexPath, <<"/", "data-analytics.html">>,
   <<"/", "sub", "/", "login.html">>}

BotIdle ==
  /\ reqs = [r \in ReqIds |-> IdleReq]
  /\ uploadDir = {}
  /\ unlinking = {}

\* The session, store and login endpoints.
Init ==
  /\ users \in InitStores
  /\ usersFile = "ok"
  /\ session = [s \in Sessions |-> EmptySession]
  /\ last = NoRequest
  /\ BotIdle
  /\ r2Enabled = FALSE
  /\ trunc = NoCall
  /\ client = NoClient

Next ==
  \/ \E s \in Sessions, uid \in ReqUids, password \in ReqPasswords :
       Login(s, uid, password) /\ UNCHANGED <<botVars, trunc, client>>
  \/ \E s \in Sessions : Logout(s) /\ UNCHANGED <<botVars, trunc, client>>
  \/ \E s \in Sessions : GetSession(s) /\ UNCHANGED <<botVars, trunc, client>>
  \/ \E s \in Sessions, raw \in ReqNicknames :
       Nickname(s, raw) /\ UNCHANGED <<botVars, trunc, client>>
  \/ \E s \in Sessions, path \in PagePaths : GetPage(s, path) /\ UNCHANGED <<botVars, trunc, client>>

Spec == Init /\ [][Next]_vars

\* The session endpoints with data/users.json edited from outside the server
\* between requests (the server has no endpoint that adds a user): the file is
\* replaced by a document with both users or without user u1, or by something
\* that is no {users: [...]} document, or removed.
FileStores ==
  {<<UserRecord("u1", UndefinedStr), UserRecord("u2", <<"a">>)>>, <<UserRecord("u2", <<"a">>)>>}
FileNicknames == {<<" ">>, <<"b", " ">>}

FileReplaced(kind, store) ==
  /\ usersFile' = kind
  /\ users' = IF kind = "ok" THEN store ELSE <<>>
  /\ last' = [NoRequest EXCEPT !.op = "file"]
  /\ UNCHANGED session

FileInit ==
  /\ usersFile \in UsersFileKinds
  /\ users \in IF usersFile = "ok" THEN FileStores ELSE {<<>>}
  /\ session = [s \in Sessions |-> EmptySession]
  /\ last = NoRequest
  /\ BotIdle
  /\ r2Enabled = FALSE
  /\ trunc = NoCall
  /\ client = NoClient

FileNext ==
  \/ \E kind \in UsersFileKinds, store \in FileStores :
       FileReplaced(kind, store) /\ UNCHANGED <<botVars, trunc, client>>
  \/ \E s \in Sessions, uid \in Uids, password \in {PasswordOf(u) : u \in Uids} :
       Login(s, uid, password) /\ UNCHANGED <<botVars, trunc, client>>
  \/ \E s \in Sessions : Logout(s) /\ UNCHANGED <<botVars, trunc, client>>
  \/ \E s \in Sessions : GetSession(s) /\ UNCHANGED <<botVars, trunc, client>>
  \/ \E s \in Sessions, raw \in FileNicknames :
       Nickname(s, raw) /\ UNCHANGED <<botVars, trunc, client>>
  \/ \E s \in Sessions : GetPage(s, IndexPath) /\ UNCHANGED <<botVars, trunc, client>>

FileSpec == FileInit /\ [][FileNext]_vars

\* The bot endpoint. Each session is as a login left it: empty, or holding a
\* stored user's uid and nickname.
BotStore == <<UserRecord("u1", <<"a">>)>>
LoggedIn(user) ==
  [uid |-> user.uid,
   nickname |-> IF TruthyStr(user.nickname) THEN user.nickname ELSE <<>>]

BotInit ==
  /\ users = BotStore
  /\ usersFile = "ok"
  /\ session \in [Sessions -> {EmptySession} \cup {LoggedIn(users[i]) : i \in 1..Len(users)}]
  /\ last = NoRequest
  /\ BotIdle
  /\ r2Enabled \in BOOLEAN
  /\ trunc = NoCall
  /\ client = NoClient

BotNext ==
  \/ \E r \in ReqIds, s \in Sessions, botId \in BotIds, file \in FileKinds :
       BotUpload(r, s, botId, file) /\ UNCHANGED <<authVars, trunc, client>>
  \/ \E r \in ReqIds, outcome \in {"none", "image", "text", "empty", "throw"} :
       BotHandler(r, outcome) /\ UNCHANGED <<authVars, trunc, client>>
  \/ \E r \in ReqIds, ok \in BOOLEAN : BotUploadToR2(r, ok) /\ UNCHANGED <<authVars, trunc, client>>
  \/ \E r \in ReqIds, userText \in UserTexts, apiStatus \in ApiStatuses \cup {0} :
       BotFetch(r, userText, apiStatus) /\ UNCHANGED <<authVars, trunc, client>>
  \/ \E r \in ReqIds, parsed \in ParseOutcomes : BotJson(r, parsed) /\ UNCHANGED <<authVars, trunc, client>>
  \/ \E f \in ReqIds : UnlinkDone(f) /\ UNCHANGED <<authVars, trunc, client>>

BotSpec == BotInit /\ [][BotNext]_vars

\* A click on Send: fetchWithRetry against the bot endpoint. Each attempt is a
\* request of its own to the server, with the same form data.
AttemptIds == 1..Tries
ProxyOutcomes == {0, 502, 503, 504}
RetryApiStatuses == {200, 503}

RetryInit ==
  /\ users = BotStore
  /\ usersFile = "ok"
  /\ session \in [Sessions -> {EmptySession} \cup {LoggedIn(users[i]) : i \in 1..Len(users)}]
  /\ last = NoRequest
  /\ reqs = [r \in AttemptIds |-> IdleReq]
  /\ uploadDir = {}
  /\ unlinking = {}
  /\ r2Enabled \in BOOLEAN
  /\ trunc = NoCall
  /\ client = NoClient

RetryNext ==
  \/ \E s \in Sessions, botId \in BotIds, file \in FileKinds, text \in UserTexts :
       /\ file # "none" \/ text # <<>>
       /\ ClientCall(s, botId, file, text)
       /\ UNCHANGED <<authVars, botVars, trunc>>
  \/ ClientLoop /\ UNCHANGED <<authVars, botVars, trunc>>
  \/ /\ ClientFetch
     /\ BotUpload(client.i + 1, client.sess, client.botId, client.file)
     /\ UNCHANGED <<authVars, trunc>>
  \/ \E outcome \in ProxyOutcomes :
       ClientNoServer(outcome) /\ UNCHANGED <<authVars, botVars, trunc>>
  \/ \E r \in AttemptIds, outcome \in {"none", "image", "text", "empty", "throw"} :
       BotHandler(r, outcome) /\ UNCHANGED <<authVars, trunc, client>>
  \/ \E r \in AttemptIds, ok \in BOOLEAN :
       BotUploadToR2(r, ok) /\ UNCHANGED <<authVars, trunc, client>>
  \/ \E r \in AttemptIds, apiStatus \in RetryApiStatuses \cup {0} :
       BotFetch(r, client.text, apiStatus) /\ UNCHANGED <<authVars, trunc, client>>
  \/ \E r \in AttemptIds, parsed \in ParseOutcomes :
       BotJson(r, parsed) /\ UNCHANGED <<authVars, trunc, client>>
  \/ \E f \in AttemptIds : UnlinkDone(f) /\ UNCHANGED <<authVars, trunc, client>>
  \/ /\ client.pc = "await"
     /\ reqs[client.i + 1].pc = "done"
     /\ ClientResponse(reqs[client.i + 1].status)
     /\ UNCHANGED <<authVars, botVars, trunc>>
  \/ ClientSleep /\ UNCHANGED <<authVars, botVars, trunc>>

RetrySpec == RetryInit /\ [][RetryNext]_vars

\* truncateText on its own.
TruncInit ==
  /\ users = <<>>
  /\ usersFile = "ok"
  /\ session = [s \in Sessions |-> EmptySession]
  /\ last = NoRequest
  /\ BotIdle
  /\ r2Enabled = FALSE
  /\ \E text \in Texts, limit \in Limits :
       trunc = [pc |-> "call", text |-> text, limit |-> limit, out |-> <<>>]
  /\ client = NoClient

TruncNext == TruncateCall

TruncSpec == TruncInit /\ [][TruncNext]_vars

\* ------------------------------------------------------------------ claims
RecordMatches(i, uid, password) ==
  users[i].uid = uid /\ users[i].password = password

NoRecordMatches(uid, password) ==
  ~\E i \in 1..Len(users) : RecordMatches(i, uid, password)

\* C1: every session whose nickname is non-empty has a user record in the
\* store with the session's uid and the session's nickname.
C1_SessionNicknameInStore ==
  \A s \in Sessions :
    TruthyStr(session[s].nickname) =>
      \E i \in 1..Len(users) :
        users[i].uid = session[s].uid /\ users[i].nickname = session[s].nickname

\* C2, as claimed: a login whose (uid, password) matches no user record is
\* answered 401 and leaves the session and the store as they were.
C2_MismatchAlways401 ==
  [][(last'.op = "login" /\ NoRecordMatches(last'.uid, last'.password))
       => (last'.status = 401 /\ session' = session /\ users' = users)]_vars

\* C2, amended: such a login is answered 401 when uid and password are both
\* non-empty and 400 when either is missing or empty, so never 200, and it
\* leaves the session and the store as they were.
C2_MismatchRejected ==
  [][(last'.op = "login" /\ NoRecordMatches(last'.uid, last'.password))
       => (/\ last'.status =
                IF last'.uid \in {Undefined, ""} \/ last'.password \in {Undefined, ""}
                THEN 400 ELSE 401
           /\ ~last'.body.ok
           /\ session' = session
           /\ users' = users)]_vars

\* A valid uid with the other user's password is refused, and the session stays
\* logged in as the user it was.
C2_Witness ==
  /\ last.op = "login" /\ last.status = 401
  /\ last.uid = "u1" /\ last.password = "p2"
  /\ Len(users) = 2
  /\ session[last.sess].uid = "u2"

\* C3: a login whose (uid, password) matches a user record is answered
\* {ok: true, needsNickname}, needsNickname being true exactly when the stored
\* nickname is absent or empty; the session then holds the record's uid and its
\* nickname (empty if none), and GET /api/session reports authenticated with
\* that uid.
C3_LoginSuccess ==
  \A i \in 1..Len(users) :
    (last.op = "login" /\ RecordMatches(i, last.uid, last.password)) =>
      /\ last.status = 200
      /\ last.body.ok
      /\ last.body.needsNickname = (users[i].nickname \in {UndefinedStr, <<>>})
      /\ session[last.sess].uid = users[i].uid
      /\ session[last.sess].nickname =
           IF users[i].nickname = UndefinedStr THEN <<>> ELSE users[i].nickname
      /\ SessionBody(session[last.sess]).authenticated
      /\ SessionBody(session[last.sess]).uid = users[i].uid

C3_Witness ==
  /\ last.op = "login" /\ last.status = 200 /\ last.body.needsNickname
  /\ last.uid = "u2"
  /\ Len(users) = 2 /\ users[2].nickname = <<>> /\ users[1].nickname = <<"a">>

\* C4: a nickname update on a session with no uid is answered 401 without a
\* read or a write of the store; the store and the sessions are unchanged.
C4_NicknameUnauthenticated ==
  [][(last'.op = "nickname" /\ session[last'.sess].uid \in {Undefined, ""})
       => (/\ last'.status = 401
           /\ last'.reads = 0 /\ last'.writes = 0
           /\ users' = users
           /\ session' = session)]_vars

C4_Witness ==
  /\ last.op = "nickname" /\ last.status = 401
  /\ last.nickname = <<"a">>
  /\ Len(users) = 2

IsTrimOf(t, raw) ==
  \E i \in 0..Len(raw) : \E j \in i..Len(raw) :
    /\ t = SubSeq(raw, i + 1, j)
    /\ \A k \in 1..i : raw[k] = " "
    /\ \A k \in (j + 1)..Len(raw) : raw[k] = " "
    /\ t # <<>> => (t[1] # " " /\ t[Len(t)] # " ")

\* C5: a GET /api/session that follows a nickname update answered 200 in the
\* same session returns the nickname the update sent, trimmed, and the uid the
\* update ran as.
C5_NicknameRoundTrip ==
  (last.op = "session" /\ last.prev.op = "nickname") =>
    /\ last.status = 200
    /\ last.body.authenticated
    /\ last.body.uid = last.prev.as
    /\ last.body.nickname # NullStr
    /\ last.body.nickname # <<>>
    /\ IsTrimOf(last.body.nickname, last.prev.nickname)

C5_Witness ==
  /\ last.op = "session" /\ last.prev.op = "nickname"
  /\ last.prev.nickname = <<" ", "a", " ">>
  /\ last.body.nickname = <<"a">>

Arrived(r) == reqs[r].pc # "idle"
Authenticated(r) == session[reqs[r].sess].uid \notin {Undefined, ""}
Unconfigured(r) ==
  \/ Env(reqs[r].botId).model \in {Undefined, ""}
  \/ Env(reqs[r].botId).key \in {Undefined, ""}

C7_Unauthenticated401BeforeWork ==
  \A r \in ReqIds :
    (Arrived(r) /\ ~Authenticated(r) /\ reqs[r].pc = "done" /\ reqs[r].status = 401) =>
      /\ reqs[r].path = 0 /\ reqs[r].path \notin uploadDir
      /\ reqs[r].extract = ""
      /\ reqs[r].r2Calls = 0 /\ reqs[r].apiCalls = 0

\* C8: each bot request is answered once, with 401 if unauthenticated; else
\* 501 if unconfigured; else the external API's status, with details, if it
\* answered with a non-success status; else 500 if something threw; else 200.
C8_StatusPrecedence ==
  \A r \in ReqIds :
    reqs[r].pc = "done" =>
      /\ reqs[r].responses = 1
      /\ IF ~Authenticated(r) THEN reqs[r].status = 401
         ELSE IF Unconfigured(r) THEN reqs[r].status = 501
         ELSE IF reqs[r].apiStatus # 0 /\ ~ResponseOk(reqs[r].apiStatus)
              THEN reqs[r].status = reqs[r].apiStatus /\ reqs[r].details
         ELSE IF reqs[r].threw # "" THEN reqs[r].status = 500
         ELSE reqs[r].status = 200

\* C9: once a bot request that uploaded a file has been answered, with any
\* status, and no deletion of the file is still in flight, the file is no
\* longer in the upload directory.
C9_UploadDeletedOnceAnswered ==
  \A r \in ReqIds :
    (reqs[r].pc = "done" /\ reqs[r].path # 0 /\ reqs[r].path \notin unlinking) =>
      reqs[r].path \notin uploadDir

DigitValue(c) ==
  CASE c = "0" -> 0 [] c = "1" -> 1 [] c = "2" -> 2 [] c = "3" -> 3 [] c = "4" -> 4
    [] c = "5" -> 5 [] c = "6" -> 6 [] c = "7" -> 7 [] c = "8" -> 8 [] c = "9" -> 9
    [] OTHER -> -1

RECURSIVE DecimalValue(_)
\* The number a sequence of decimal digits denotes, -1 if it is no number.
DecimalValue(ds) ==
  IF ds = <<>> THEN -1
  ELSE LET d == DigitValue(ds[Len(ds)]) IN
       IF d < 0 THEN -1
       ELSE IF Len(ds) = 1 THEN d
       ELSE LET rest == DecimalValue(SubSeq(ds, 1, Len(ds) - 1)) IN
            IF rest <= 0 THEN -1 ELSE 10 * rest + d

\* C10: truncateText(text, limit) returns a text longer than the limit as its
\* first limit characters followed by "\n\n[Truncated N chars]", N being
\* text.length - limit in decimal, so limit plus the marker's length long; a
\* text of at most limit characters is returned unchanged.
C10_TruncateText ==
  trunc.pc = "done" =>
    LET n == Len(trunc.text)
        limit == trunc.limit
        out == trunc.out
        markerLen == Len(out) - limit
        marker == SubSeq(out, limit + 1, Len(out))
        digits == SubSeq(marker, Len(MarkerHead) + 1, markerLen - Len(MarkerTail))
    IN IF n > limit
       THEN /\ markerLen > Len(MarkerHead) + Len(MarkerTail)
            /\ SubSeq(out, 1, limit) = SubSeq(trunc.text, 1, limit)
            /\ SubSeq(marker, 1, Len(MarkerHead)) = MarkerHead
            /\ SubSeq(marker, markerLen - Len(MarkerTail) + 1, markerLen) = MarkerTail
            /\ DecimalValue(digits) = n - limit
       ELSE out = trunc.text

\* A text of the default limit plus MaxTextLen characters, cut at the default.
C10_Witness ==
  /\ trunc.pc = "done"
  /\ trunc.limit = DefaultLimit
  /\ Len(trunc.text) = DefaultLimit + MaxTextLen
  /\ Len(trunc.out) = DefaultLimit + Len(MarkerHead) + 2 + Len(MarkerTail)
\* C11: a page request for "/" or for a .html page other than login.html and
\* nickname.html is answered with the page only when the session has a uid and
\* a non-empty nickname, with a redirect to /login.html when the session has
\* no uid, and with a redirect to /nickname.html when it has a uid and no
\* nickname; nickname.html is served only to a session with a uid and no
\* nickname, and redirects to /login.html or /index.html otherwise;
\* login.html is always served.
HasUid(sess) == sess.uid # Undefined /\ sess.uid # ""
HasNickname(sess) == sess.nickname # UndefinedStr /\ sess.nickname # <<>>
Served(request) == request.page.kind = "file"
RedirectedTo(request, path) == request.page = [kind |-> "redirect", target |-> path]

C11_PageGating ==
  last.op = "page" =>
    LET sess == session[last.sess] IN
    /\ last.path = LoginPath => last.page = [kind |-> "file", target |-> <<"login.html">>]
    /\ last.path = NicknamePath =>
         /\ Served(last) <=> HasUid(sess) /\ ~HasNickname(sess)
         /\ Served(last) => last.page.target = <<"nickname.html">>
         /\ ~HasUid(sess) => RedirectedTo(last, LoginPath)
         /\ HasUid(sess) /\ HasNickname(sess) => RedirectedTo(last, IndexPath)
    /\ last.path \notin {LoginPath, NicknamePath} =>
         /\ Served(last) <=> HasUid(sess) /\ HasNickname(sess)
         /\ Served(last) =>
              last.page.target = IF last.path = <<"/">> THEN <<"index.html">>
                                 ELSE Tail(last.path)
         /\ ~HasUid(sess) => RedirectedTo(last, LoginPath)
         /\ HasUid(sess) /\ ~HasNickname(sess) => RedirectedTo(last, NicknamePath)

C11_Witness ==
  /\ last.op = "page"
  /\ last.path = <<"/", "data-analytics.html">>
  /\ HasUid(session[last.sess])
  /\ ~HasNickname(session[last.sess])
  /\ RedirectedTo(last, NicknamePath)

\* C12: the parts sent to the API are, in this order, the user text when it is
\* not empty, the extracted file text when it is not empty, behind the
\* "[File Content]" marker, and the inline image when there is one; the
\* placeholder "No input provided." is the only part exactly when all three are
\* absent, so that the parts are never empty; without a file no part carries
\* the marker.
Sent(r) == reqs[r].apiCalls > 0
HasUserText(r) == reqs[r].text # <<>>
HasFileText(r) == reqs[r].file # "none" /\ reqs[r].extract = "text"
HasImage(r) == reqs[r].file # "none" /\ reqs[r].extract = "image"
Count(b) == IF b THEN 1 ELSE 0
CarriesMarker(part) ==
  part.text # UndefinedStr /\ part.text # <<>> /\ Head(part.text) = "\n\n[File Content]\n"
IsPlaceholder(part) == part = [text |-> <<"No input provided.">>, inline_data |-> Null]

C12_PartsOrder ==
  \A r \in ReqIds :
    Sent(r) =>
      LET parts == reqs[r].parts
          nothing == ~HasUserText(r) /\ ~HasFileText(r) /\ ~HasImage(r)
          atFile == 1 + Count(HasUserText(r))
          atImage == atFile + Count(HasFileText(r))
      IN /\ Len(parts) >= 1
         /\ nothing <=> (Len(parts) = 1 /\ IsPlaceholder(parts[1]))
         /\ \A i \in 1..Len(parts) : IsPlaceholder(parts[i]) => nothing
         /\ ~nothing =>
              Len(parts) = Count(HasUserText(r)) + Count(HasFileText(r)) + Count(HasImage(r))
         /\ HasUserText(r) => parts[1] = [text |-> reqs[r].text, inline_data |-> Null]
         /\ HasFileText(r) =>
              /\ CarriesMarker(parts[atFile])
              /\ Tail(parts[atFile].text) = FileText
              /\ parts[atFile].inline_data = Null
         /\ HasImage(r) => parts[atImage] = [text |-> UndefinedStr, inline_data |-> ImageData]
         /\ reqs[r].file = "none" => \A i \in 1..Len(parts) : ~CarriesMarker(parts[i])

C12_Witness ==
  \E r \in ReqIds :
    /\ Sent(r)
    /\ HasUserText(r)
    /\ HasImage(r)
    /\ Len(reqs[r].parts) = 2

\* C13: logout answers {ok: true}, destroys the session and leaves the
\* credential store alone; from then on, as long as the session has no uid,
\* GET /api/session answers authenticated false with uid and nickname null,
\* POST /api/nickname answers 401, the bot endpoint refuses the session, every
\* page but login.html redirects to /login.html, and only a successful login
\* in that session gives it a uid again.
LoggedOut(s) ==
  /\ session'[s].uid = Undefined
  /\ session'[s].nickname = UndefinedStr
  /\ ~BotAuthorized(session'[s])

IsRequest(request) == request.op \in {"login", "logout", "session", "nickname", "page"}

C14_StoreFrame ==
  [][ IsRequest(last') =>
        /\ Len(users') = Len(users)
        /\ \A i \in 1..Len(users) :
             /\ users'[i].uid = users[i].uid
             /\ users'[i].password = users[i].password
        /\ usersFile' = usersFile
        /\ users' # users =>
             /\ last'.op = "nickname"
             /\ last'.status = 200
             /\ \A i \in 1..Len(users) :
                  users'[i] # users[i] => users[i].uid = session[last'.sess].uid
        /\ last'.op = "nickname" /\ last'.status \in {400, 404} =>
             /\ users' = users
             /\ session' = session
    ]_vars

C14_Witness ==
  /\ last.op = "nickname"
  /\ last.status = 404
  /\ last.as = "u1"
  /\ users = <<UserRecord("u2", <<"a">>)>>

\* C15: when a nickname update answered 200 is followed, in either order of the
\* two, by a nickname update answered 200 from another session that is
\* authenticated as a different user, the store then holds both users' new
\* nicknames.
Updated(request) == request.op = "nickname" /\ request.status = 200
HoldsNicknameOf(store, request) ==
  \E i \in 1..Len(store) :
    /\ store[i].uid = request.as
    /\ store[i].nickname = Trim(request.nickname)

C15_NoLostUpdate ==
  [][ /\ Updated(last)
      /\ Updated(last')
      /\ last'.sess # last.sess
      /\ last'.as # last.as
      => /\ HoldsNicknameOf(users', last)
         /\ HoldsNicknameOf(users', last')
    ]_vars

C15_Witness ==
  /\ Updated(last)
  /\ users = <<UserRecord("u1", <<"b">>), UserRecord("u2", <<"b">>)>>
  /\ \A s \in Sessions : session[s].nickname = <<"b">>
  /\ \E s1 \in Sessions, s2 \in Sessions : session[s1].uid = "u1" /\ session[s2].uid = "u2"

\* C16: fetchWithRetry calls fetch at most three times; an attempt answered 502,
\* 503 or 504 (or not answered) is followed by a sleep of 800 ms times its
\* 1-based number and, if it was not the third, by the next attempt; an attempt
\* answered with any other status ends the call, which returns that response;
\* after a third failed attempt the call ends by throwing that attempt's
\* error; the server answers each request once and calls the object store and
\* the API at most once per request.
Failed(outcome) == outcome \in {0, 502, 503, 504}
ErrorOf(outcome) == IF outcome = 0 THEN "network" ELSE "waking"
Attempts == Len(client.outcomes)

C16_RetryPolicy ==
  /\ Attempts <= 3
  /\ \A k \in 1..Attempts : k < Attempts => Failed(client.outcomes[k])
  /\ Len(client.slept) <= Attempts
  /\ \A k \in 1..Len(client.slept) :
       Failed(client.outcomes[k]) /\ client.slept[k] = 800 * k
  /\ Attempts > 0 /\ Failed(client.outcomes[Attempts]) =>
       \/ client.pc = "sleep" /\ Len(client.slept) = Attempts - 1
       \/ client.pc \in {"loop", "thrown"} /\ Len(client.slept) = Attempts /\ Attempts = 3
       \/ client.pc \in {"loop", "fetch", "await"} /\ Len(client.slept) = Attempts
            /\ Attempts < 3
  /\ Attempts > 0 /\ ~Failed(client.outcomes[Attempts]) =>
       client.pc = "returned" /\ client.res = client.outcomes[Attempts]
  /\ client.pc = "returned" => Attempts > 0 /\ ~Failed(client.outcomes[Attempts])
  /\ client.pc = "thrown" =>
       /\ Attempts = 3
       /\ client.slept = <<800, 1600, 2400>>
       /\ client.thrown = ErrorOf(client.outcomes[3])
  /\ \A r \in DOMAIN reqs :
       /\ reqs[r].responses <= 1
       /\ reqs[r].apiCalls <= 1
       /\ reqs[r].r2Calls <= 1
       /\ reqs[r].pc # "idle" =>
            r <= Attempts + (IF client.pc = "await" THEN 1 ELSE 0)

C16_Witness ==
  /\ client.pc = "thrown"
  /\ client.outcomes = <<503, 502, 503>>
  /\ reqs[1].status = 503
  /\ reqs[2].pc = "idle"
  /\ reqs[3].apiCalls = 1

\* C17: while data/users.json is missing, empty, or anything but a
\* {users: [...]} document, a login with a non-empty uid and password is
\* answered 401 and a nickname update from a session with a uid and with a
\* nickname that is not empty after trimming is answered 404.
NonEmptyLogin(request) ==
  request.op = "login" /\ Truthy(request.uid) /\ Truthy(request.password)
NonEmptyNickname(request) == request.op = "nickname" /\ Trim(request.nickname) # <<>>

C17_BadFileIsEmptyStore ==
  [][ usersFile # "ok" =>
        /\ NonEmptyLogin(last') => last'.status = 401
        /\ NonEmptyNickname(last') /\ HasUid(session[last'.sess]) => last'.status = 404
    ]_vars

====
